---- MODULE Spec2Model ----
(***************************************************************************)
(* Model of YADT's src/main.rs: the build-and-launch pipeline              *)
(*   parse_config -> image acquisition -> layered build -> exec launch     *)
(* together with the child build process, the two pipes that connect it    *)
(* to the orchestrator and the writer thread that feeds it the embedded    *)
(* Containerfile.  Strings that the program inspects or forwards are       *)
(* sequences of one-character strings; a child's stdout is a byte stream.  *)
(***************************************************************************)
EXTENDS Integers, Sequences, FiniteSets, TLC

VARIABLES
    cli_mode,       \* Cli.mode: "Containerfile" or "Image"
    cli_image,      \* Mode::Image { image }
    cli_config,     \* Cli.config: "none" or "some" (an override path); "moved"
                    \* once parse_config has taken it
    config,         \* the Config returned by parse_config, NoConfig before
    pc,             \* position of the main thread inside main()
    outcome,        \* how the process ended: [kind, stage, msg]
    dev_image,      \* let dev_image
    container_id,   \* let container_id
    packages_string,\* value of config.all_packages() at its call
    spawned,        \* commands started so far, in order
    child,          \* "none" | "running" | "exited": the current build child
    child_out,      \* bytes the current child has written to its stdout
    child_pend,     \* byte the child is blocked writing, NoByte otherwise
    stdout_pipe,    \* bytes in the child's stdout pipe, not yet read
    stdin_fill,     \* number of bytes in the child's stdin pipe
    stdin_open,     \* the write end of the child's stdin is open
    writer,         \* "none" | "writing" | "ok" | "err": the writer thread
    written,        \* recipe bytes write_all has put into the pipe
    launch,         \* argv built for the final exec, Unset before
    buf,            \* BufReader/Lines: bytes of the line being assembled
    last,           \* Iterator::last accumulator: Option<io::Result<String>>
    nread,          \* number of items the Lines iterator has yielded
    console,        \* lines printed on the orchestrator's own stdout
    failed_builds   \* stages whose build child exited unsuccessfully

vars == << cli_mode, cli_image, cli_config, config, pc, outcome, dev_image,
           container_id, packages_string, spawned, child,
           child_out, child_pend, stdout_pipe, stdin_fill,
           stdin_open, writer, written, launch, buf, last, nread, console,
           failed_builds >>

(***************************************************************************)
(* Bounds of the model.                                                    *)
(***************************************************************************)
\* longest stdout stream, in bytes, a build child produces
MaxOut == 3
\* capacity of the child's stdout pipe, in bytes
StdoutCap == 1
\* capacity of the child's stdin pipe, in bytes
StdinCap == 1
\* number of distinct package names a configuration file may mention
MaxPkgs == 3

\* length of the embedded Containerfile: always more than one pipe buffer
RecipeLen == StdinCap + 1

(***************************************************************************)
(* Bytes and text.                                                         *)
(***************************************************************************)
LF == "\n"
CR == "\r"
\* a byte that is not valid UTF-8
BAD == "x"
\* the bytes a child writes in the model
Bytes == {"a", LF, BAD}

NoByte == "none"
Unset == <<"unset">>

\* command-line arguments: a literal, format!("<pre>{}", v), and a value
\* followed by a literal suffix
S(str) == [pre |-> str, val |-> <<>>, post |-> ""]
F(str, v) == [pre |-> str, val |-> v, post |-> ""]
V(v, str) == [pre |-> "", val |-> v, post |-> str]

RECURSIVE Flatten(_)
Flatten(ss) == IF ss = <<>> THEN <<>> ELSE Head(ss) \o Flatten(Tail(ss))

Last(s) == s[Len(s)]
Front(s) == SubSeq(s, 1, Len(s) - 1)
Range(s) == {s[i] : i \in 1..Len(s)}

(***************************************************************************)
(* Option<T> and io::Result<T> values.                                     *)
(***************************************************************************)
None == [tag |-> "None", val |-> <<>>]
Some(v) == [tag |-> "Some", val |-> v]
Ok(v) == [tag |-> "Ok", val |-> v]
Err == [tag |-> "Err", val |-> <<>>]

(***************************************************************************)
(* Configuration (struct Config and its serde defaults).                   *)
(***************************************************************************)
\* the i-th package name a configuration may mention
PkgName(i) ==
    CASE i = 1 -> <<"b", "a", "s", "h">>
      [] i = 2 -> <<"g", "i", "t">>
      [] i = 3 -> <<"z", "i", "p">>
      [] OTHER -> <<"p">> \o [j \in 1..(i - 3) |-> "k"]

PkgNames == {PkgName(i) : i \in 1..MaxPkgs}

default_docker_name == <<"p", "o", "d", "m", "a", "n">>
default_nix_image == <<"n", "i", "x", ":", "l", "a", "t", "e", "s", "t">>
\* the 34-name list of the source, abridged to two of its members
default_base_packages == {PkgName(1), PkgName(3)}

NoConfig == [docker_name |-> <<>>, nix_image |-> <<>>,
             base_packages |-> {}, additional_packages |-> {}, set |-> FALSE]

MkConfig(d, n, b, a) ==
    [docker_name |-> d, nix_image |-> n,
     base_packages |-> b, additional_packages |-> a, set |-> TRUE]

DefaultConfig ==
    MkConfig(default_docker_name, default_nix_image, default_base_packages, {})

(***************************************************************************)
(* Package Set Resolver: Config::all_packages.                             *)
(***************************************************************************)
\* all enumerations of a finite set, each element once
Perms(set) ==
    {f \in [1..Cardinality(set) -> set] :
        \A i, j \in 1..Cardinality(set) : f[i] = f[j] => i = j}

\* HashSet::union(&self, other): the elements of self in some order, then
\* the elements of other that are not in self, in some order
UnionChain(base, additional) ==
    {p \o q : p \in Perms(base), q \in Perms(additional)}

Union(base, additional) ==
    {p \o q : p \in Perms(base), q \in Perms(additional \ base)}

NIXPKGS == <<"n", "i", "x", "p", "k", "g", "s", "#">>

\* |s| format!("nixpkgs#{}", s)
FormatPkg(s) == NIXPKGS \o s

\* |a, b| format!("{} {}", a, b)
JoinPair(a, b) == a \o <<" ">> \o b

RECURSIVE Fold(_, _)
Fold(acc, items) ==
    IF items = <<>> THEN acc
    ELSE Fold(JoinPair(acc, Head(items)), Tail(items))

\* Iterator::reduce: None on an empty iterator, else the left fold
Reduce(items) ==
    IF items = <<>> THEN None ELSE Some(Fold(Head(items), Tail(items)))

\* Option::unwrap_or_default for String
UnwrapOrDefault(opt) == IF opt.tag = "Some" THEN opt.val ELSE <<>>

RECURSIVE JoinNames(_)
JoinNames(iter) ==
    IF iter = <<>> THEN <<>>
    ELSE IF Len(iter) = 1 THEN Head(iter)
    ELSE JoinPair(Head(iter), JoinNames(Tail(iter)))

\* the namespace put once in front of the joined names
all_packages_prefix_once(iter) == FormatPkg(JoinNames(iter))

\* the string all_packages returns when the union iterates as iter
all_packages(iter) ==
    UnwrapOrDefault(Reduce([i \in 1..Len(iter) |-> FormatPkg(iter[i])]))

\* the strings config.all_packages() may return
AllPackagesResults(c) ==
    {all_packages(iter) : iter \in Union(c.base_packages, c.additional_packages)}

(***************************************************************************)
(* BufRead::lines over a child's stdout.                                   *)
(***************************************************************************)
\* a line keeps its text up to, not including, "\n" or "\r\n"
StripEol(bytes) ==
    IF bytes # <<>> /\ Last(bytes) = LF
    THEN IF Front(bytes) # <<>> /\ Last(Front(bytes)) = CR
         THEN Front(Front(bytes))
         ELSE Front(bytes)
    ELSE bytes

\* invalid bytes are replaced instead of rejected (from_utf8_lossy)
DecodeLossy(bytes) ==
    Ok(StripEol([i \in 1..Len(bytes) |-> IF bytes[i] = BAD THEN "?" ELSE bytes[i]]))

\* the item Lines yields for the bytes of one line, terminator included
Decode(bytes) ==
    IF BAD \in Range(bytes) THEN Err ELSE Ok(StripEol(bytes))

\* println!(">>> {}", l)
Prefixed(l) == <<">", ">", ">", " ">> \o l

\* {:?} of a String: quoted, control characters escaped
DebugStr(l) ==
    <<"\"">> \o Flatten([i \in 1..Len(l) |->
                 IF l[i] = CR THEN <<"\\", "r">> ELSE <<l[i]>>]) \o <<"\"">>

\* println!("hash: {:?}", container_id)
HashLine(id) == <<"h", "a", "s", "h", ":", " ">> \o DebugStr(id)

\* fs::canonicalize of a path that resolves
Canonical(path) == <<"/">> \o path

Workspace == <<"w", "s">>
RecipePath == <<"C", "f">>
ImageNames == {<<"u", "b">>, <<"a">>}

(***************************************************************************)
(* Outcomes of the process.                                                *)
(***************************************************************************)
Running == [kind |-> "running", stage |-> "", msg |-> ""]
\* main returned Err(e): message on stderr, exit code 1
ReturnedErr(stage, msg) == [kind |-> "returned_err", stage |-> stage, msg |-> msg]
\* a panic (expect on None/Err): exit code 101
Panicked(stage, msg) == [kind |-> "panicked", stage |-> stage, msg |-> msg]
\* main returned Ok(()): exit code 0
ReturnedOk == [kind |-> "returned_ok", stage |-> "launch", msg |-> ""]
\* exec succeeded: the process image was replaced
Replaced == [kind |-> "replaced", stage |-> "launch", msg |-> ""]

ExitCode(o) ==
    CASE o.kind = "returned_ok" -> 0
      [] o.kind = "returned_err" -> 1
      [] o.kind = "panicked" -> 101
      [] OTHER -> -1

(***************************************************************************)
(* parse_config.                                                           *)
(***************************************************************************)
\* configurations a well-formed file may hold in a pipeline run
ParsedConfigs ==
    {MkConfig(default_docker_name, <<"n", "2">>,
              {PkgName(1)}, {PkgName(1), PkgName(2)}),
     MkConfig(default_docker_name, default_nix_image, {}, {})}

\* the results parse_config may return for an override that is or is not given
parse_config(config_override) ==
    LET parsed == {[tag |-> "Ok", cfg |-> c, e |-> ""] : c \in ParsedConfigs}
                    \cup {[tag |-> "Err", cfg |-> NoConfig, e |-> "InvalidData"]}
    IN  IF config_override = "some"
        THEN parsed \cup {[tag |-> "Err", cfg |-> NoConfig, e |-> "read_to_string"]}
        ELSE parsed \cup {[tag |-> "Ok", cfg |-> DefaultConfig, e |-> ""]}

(***************************************************************************)
(* Initial state: the process has started, main has not run yet.           *)
(***************************************************************************)
\* no child, no writer thread, nothing read or printed yet
Idle ==
    /\ outcome = Running
    /\ container_id = Unset
    /\ packages_string = Unset
    /\ spawned = <<>>
    /\ child = "none"
    /\ child_out = <<>>
    /\ child_pend = NoByte
    /\ stdout_pipe = <<>>
    /\ stdin_fill = 0
    /\ stdin_open = FALSE
    /\ writer = "none"
    /\ written = 0
    /\ launch = Unset
    /\ buf = <<>>
    /\ last = None
    /\ nread = 0
    /\ console = <<>>
    /\ failed_builds = {}

InitRun ==
    /\ config = NoConfig
    /\ pc = "parse_config"
    /\ dev_image = Unset
    /\ Idle

Init ==
    /\ cli_mode \in {"Containerfile", "Image"}
    /\ cli_image \in (IF cli_mode = "Image" THEN ImageNames ELSE {<<>>})
    /\ cli_config \in {"none", "some"}
    /\ InitRun

cliVars == << cli_mode, cli_image, cli_config >>
childVars == << child, child_out, child_pend, stdout_pipe, stdin_fill >>
writerVars == << writer, written, stdin_open >>
linesVars == << buf, last, nread >>

\* the process ends with outcome o
Exit(o) == /\ pc' = "end"
           /\ outcome' = o

\* Command::spawn of a build with piped stdout: a fresh running child
SpawnChild ==
    /\ child' = "running"
    /\ child_out' = <<>>
    /\ child_pend' = NoByte
    /\ stdout_pipe' = <<>>
    /\ stdin_fill' = 0
    /\ buf' = <<>>
    /\ last' = None
    /\ nread' = 0

(***************************************************************************)
(* main(): configuration and image acquisition.                            *)
(***************************************************************************)
\* a configuration error is reported but the run goes on with the defaults
ParseConfigLenient ==
    /\ pc = "parse_config"
    /\ \E r \in parse_config(cli_config) :
          IF r.tag = "Ok"
          THEN /\ config' = r.cfg
               /\ UNCHANGED outcome
          ELSE /\ config' = DefaultConfig
               /\ outcome' = ReturnedErr("config", r.e)
    /\ pc' = "acquire"
    /\ cli_config' = "moved"
    /\ UNCHANGED << cli_mode, cli_image, dev_image, container_id,
                    packages_string, spawned, childVars, writerVars, launch,
                    linesVars, console, failed_builds >>

\* let config = parse_config(cli.config)?;
ParseConfig ==
    /\ pc = "parse_config"
    /\ \E r \in parse_config(cli_config) :
          IF r.tag = "Ok"
          THEN /\ config' = r.cfg
               /\ pc' = "acquire"
               /\ UNCHANGED outcome
          ELSE /\ Exit(ReturnedErr("config", r.e))
               /\ UNCHANGED config
    /\ cli_config' = "moved"
    /\ UNCHANGED << cli_mode, cli_image, dev_image, container_id,
                    packages_string, spawned, childVars, writerVars, launch,
                    linesVars, console, failed_builds >>

\* argv of the acquisition build
AcqArgv == << F("", config.docker_name), S("build"), S("-f"),
              F("", Canonical(RecipePath)) >>

\* the given name is completed with a tag before use
AcquireImageTagged ==
    /\ pc = "acquire"
    /\ cli_mode = "Image"
    /\ dev_image' = cli_image \o <<":", "l", "a", "t", "e", "s", "t">>
    /\ pc' = "canon1"
    /\ UNCHANGED << cliVars, config, outcome, container_id, packages_string,
                    spawned, childVars, writerVars, launch, linesVars,
                    console, failed_builds >>

\* Mode::Image { image } => image
AcquireImage ==
    /\ pc = "acquire"
    /\ cli_mode = "Image"
    /\ dev_image' = cli_image
    /\ pc' = "canon1"
    /\ UNCHANGED << cliVars, config, outcome, container_id, packages_string,
                    spawned, childVars, writerVars, launch, linesVars,
                    console, failed_builds >>

\* Mode::Containerfile: canonicalize the path, spawn `build -f <path>`
AcquireContainerfile ==
    /\ pc = "acquire"
    /\ cli_mode = "Containerfile"
    /\ \E canon_ok, spawn_ok \in BOOLEAN :
          IF ~canon_ok
          THEN /\ Exit(Panicked("acquisition",
                                "Could not canonicalize containerfile path"))
               /\ UNCHANGED << spawned, childVars, linesVars >>
          ELSE IF ~spawn_ok
          THEN /\ Exit(ReturnedErr("acquisition", "spawn"))
               /\ UNCHANGED << spawned, childVars, linesVars >>
          ELSE /\ spawned' = Append(spawned,
                                [stage |-> "acquisition", argv |-> AcqArgv])
               /\ SpawnChild
               /\ pc' = "acq_read"
               /\ UNCHANGED outcome
    /\ UNCHANGED << cliVars, config, dev_image, container_id, packages_string,
                    writerVars, launch, console, failed_builds >>

\* the stage the running child belongs to
ChildStage == IF pc = "acq_read" THEN "acquisition" ELSE "layered"

\* the first item is kept instead of the latest one
RetainFirst(prev, item) == IF prev.tag = "None" THEN item ELSE prev

\* Iterator::last: the accumulator after one more item
Retain(prev, item) == item

\* Lines::next has input: the pipe holds a byte
LinesCanRead == stdout_pipe # <<>>
\* Lines::next sees end of stream: the pipe is empty and its write end closed
LinesAtEof == stdout_pipe = <<>> /\ child = "exited"

\* the bytes of the line Lines::next completes now, <<>> if it completes none
LineCompleted ==
    IF LinesCanRead
    THEN IF Head(stdout_pipe) = LF THEN Append(buf, LF) ELSE <<>>
    ELSE buf

\* Lines::next consumes one byte, or the unterminated tail at end of stream
LinesAdvance ==
    /\ LinesCanRead \/ (LinesAtEof /\ buf # <<>>)
    /\ IF LinesCanRead
       THEN /\ stdout_pipe' = Tail(stdout_pipe)
            /\ buf' = IF Head(stdout_pipe) = LF THEN <<>>
                      ELSE Append(buf, Head(stdout_pipe))
       ELSE /\ stdout_pipe' = stdout_pipe
            /\ buf' = <<>>
    /\ IF LineCompleted # <<>>
       THEN /\ last' = Retain(last, Decode(LineCompleted))
            /\ nread' = nread + 1
       ELSE UNCHANGED << last, nread >>

\* BufReader::new(stdout).lines().last(): one step of the iteration
AcqRead ==
    /\ pc = "acq_read"
    /\ LinesAdvance
    /\ UNCHANGED << cliVars, config, pc, outcome, dev_image, container_id,
                    packages_string, spawned, child, child_out,
                    child_pend, stdin_fill, writerVars, launch,
                    console, failed_builds >>

\* the stage takes the first line it reads (next) instead of the last one
AcqFinishFirstLine ==
    /\ pc = "acq_read"
    /\ nread >= 1 \/ (LinesAtEof /\ buf = <<>>)
    /\ CASE last.tag = "None" ->
              /\ Exit(Panicked("acquisition",
                               "Build command did not write to stdout."))
              /\ UNCHANGED dev_image
         [] last.tag = "Err" ->
              /\ Exit(Panicked("acquisition",
                               "Could not read last line of stdout"))
              /\ UNCHANGED dev_image
         [] OTHER ->
              /\ dev_image' = last.val
              /\ pc' = "canon1"
              /\ UNCHANGED outcome
    /\ UNCHANGED << cliVars, config, container_id, packages_string, spawned,
                    childVars, writerVars, launch, linesVars, console,
                    failed_builds >>

\* .last().expect(..).expect(..) once the stream is exhausted
AcqFinish ==
    /\ pc = "acq_read"
    /\ LinesAtEof /\ buf = <<>>
    /\ CASE last.tag = "None" ->
              /\ Exit(Panicked("acquisition",
                               "Build command did not write to stdout."))
              /\ UNCHANGED dev_image
         [] last.tag = "Err" ->
              /\ Exit(Panicked("acquisition",
                               "Could not read last line of stdout"))
              /\ UNCHANGED dev_image
         [] OTHER ->
              /\ dev_image' = last.val
              /\ pc' = "canon1"
              /\ UNCHANGED outcome
    /\ UNCHANGED << cliVars, config, container_id, packages_string, spawned,
                    childVars, writerVars, launch, linesVars, console,
                    failed_builds >>

(***************************************************************************)
(* main(): the layered build.                                              *)
(***************************************************************************)
\* the workspace path is unwrapped with expect, like the recipe path
Canon1Expect ==
    /\ pc = "canon1"
    /\ \E ok \in BOOLEAN :
          IF ok THEN pc' = "spawn_build" /\ UNCHANGED outcome
          ELSE Exit(Panicked("layered", "canonicalize workspace"))
    /\ UNCHANGED << cliVars, config, dev_image, container_id, packages_string,
                    spawned, childVars, writerVars, launch, linesVars,
                    console, failed_builds >>

\* fs::canonicalize(&cli.workspace)? for the (unused) WORKSPACE= argument
Canon1 ==
    /\ pc = "canon1"
    /\ \E ok \in BOOLEAN :
          IF ok THEN pc' = "spawn_build" /\ UNCHANGED outcome
          ELSE Exit(ReturnedErr("layered", "canonicalize workspace"))
    /\ UNCHANGED << cliVars, config, dev_image, container_id, packages_string,
                    spawned, childVars, writerVars, launch, linesVars,
                    console, failed_builds >>

\* the two image build arguments take each other's value
BuildArgvSwapped(pkgs) ==
    << F("", config.docker_name), S("build"), S("-f"), S("-"),
       S("--build-arg"), F("NIX_IMAGE=", dev_image),
       S("--build-arg"), F("DEV_IMAGE=", config.nix_image),
       S("--build-arg"), F("PACKAGES_STRING=", pkgs) >>

\* argv of the layered build, given the value all_packages returned
BuildArgv(pkgs) ==
    << F("", config.docker_name), S("build"), S("-f"), S("-"),
       S("--build-arg"), F("NIX_IMAGE=", config.nix_image),
       S("--build-arg"), F("DEV_IMAGE=", dev_image),
       S("--build-arg"), F("PACKAGES_STRING=", pkgs) >>

\* Command::new(..)...stdin(piped).stdout(piped).spawn()?
SpawnBuild ==
    /\ pc = "spawn_build"
    /\ \E iter \in Union(config.base_packages, config.additional_packages),
          spawn_ok \in BOOLEAN :
          /\ packages_string' = all_packages(iter)
          /\ IF spawn_ok
             THEN /\ spawned' = Append(spawned,
                        [stage |-> "layered",
                         argv |-> BuildArgv(all_packages(iter))])
                  /\ SpawnChild
                  /\ stdin_open' = TRUE
                  /\ pc' = "spawn_writer"
                  /\ UNCHANGED outcome
             ELSE /\ Exit(ReturnedErr("layered", "spawn"))
                  /\ UNCHANGED << spawned, childVars, linesVars, stdin_open >>
    /\ UNCHANGED << cliVars, config, dev_image, container_id, writer, written,
                    launch, console, failed_builds >>

\* thread::spawn(move || stdin.write_all(CONTAINERFILE))
SpawnWriter ==
    /\ pc = "spawn_writer"
    /\ writer' = "writing"
    /\ pc' = "build_read"
    /\ UNCHANGED << cliVars, config, outcome, dev_image, container_id,
                    packages_string, spawned, childVars, written, stdin_open,
                    launch, linesVars, console, failed_builds >>

\* the read loop starts only once the recipe has been written
ReaderReadyAfterWrite == pc = "build_read" /\ writer \in {"ok", "err"}

\* the main thread may take a step of its read loop
ReaderReady == pc = "build_read"

\* lines are kept back and nothing is printed while the stream is read
EchoHeldBack(out, item) == out

\* the closure of .map: echo a decoded line with the progress marker
Echo(out, item) ==
    IF item.tag = "Ok" THEN Append(out, Prefixed(item.val)) ELSE out

\* reader.lines().map(..).last(): one step of the iteration
BuildRead ==
    /\ ReaderReady
    /\ LinesAdvance
    /\ console' = IF LineCompleted # <<>>
                  THEN Echo(console, Decode(LineCompleted))
                  ELSE console
    /\ UNCHANGED << cliVars, config, pc, outcome, dev_image, container_id,
                    packages_string, spawned, child, child_out,
                    child_pend, stdin_fill, writerVars, launch,
                    failed_builds >>

\* .last().expect(..).expect(..), then println!("hash: {:?}", container_id)
BuildFinish ==
    /\ ReaderReady
    /\ LinesAtEof /\ buf = <<>>
    /\ CASE last.tag = "None" ->
              /\ Exit(Panicked("layered",
                               "Build command did not write to stdout."))
              /\ UNCHANGED << container_id, console >>
         [] last.tag = "Err" ->
              /\ Exit(Panicked("layered",
                               "Could not read last line of stdout"))
              /\ UNCHANGED << container_id, console >>
         [] OTHER ->
              /\ container_id' = last.val
              /\ console' = Append(console, HashLine(last.val))
              /\ pc' = "canon2"
              /\ UNCHANGED outcome
    /\ UNCHANGED << cliVars, config, dev_image, packages_string, spawned,
                    childVars, writerVars, launch, linesVars, failed_builds >>

(***************************************************************************)
(* The writer thread: stdin.write_all(CONTAINERFILE), then drop(stdin).    *)
(***************************************************************************)
WriterAlive == writer = "writing" /\ outcome.kind = "running"

\* write_all can put a byte into the pipe
WriterCanWrite ==
    WriterAlive /\ written < RecipeLen /\ child = "running"
                /\ stdin_fill < StdinCap

WriterWrite ==
    /\ WriterCanWrite
    /\ written' = written + 1
    /\ stdin_fill' = stdin_fill + 1
    /\ UNCHANGED << cliVars, config, pc, outcome, dev_image, container_id,
                    packages_string, spawned, child, child_out,
                    child_pend, stdout_pipe, writer, stdin_open,
                    launch, linesVars, console, failed_builds >>

\* the write error is unwrapped and takes the whole process down
WriterBrokenPipeAborts ==
    /\ WriterAlive /\ written < RecipeLen /\ child = "exited"
    /\ writer' = "err"
    /\ stdin_open' = FALSE
    /\ Exit(Panicked("layered", "write_all"))
    /\ UNCHANGED << cliVars, config, dev_image, container_id,
                    packages_string, spawned, childVars, written, launch,
                    linesVars, console, failed_builds >>

\* write_all fails with BrokenPipe: the read end is gone; the result is
\* discarded, the closure returns and stdin is dropped
WriterBrokenPipe ==
    /\ WriterAlive /\ written < RecipeLen /\ child = "exited"
    /\ writer' = "err"
    /\ stdin_open' = FALSE
    /\ UNCHANGED << cliVars, config, pc, outcome, dev_image, container_id,
                    packages_string, spawned, childVars, written, launch,
                    linesVars, console, failed_builds >>

\* the closure returns but the handle stays open (kept alive elsewhere)
WriterDoneNoClose ==
    /\ WriterAlive /\ written = RecipeLen
    /\ writer' = "ok"
    /\ UNCHANGED << cliVars, config, pc, outcome, dev_image, container_id,
                    packages_string, spawned, childVars, written, stdin_open,
                    launch, linesVars, console, failed_builds >>

\* write_all returns Ok(()); the closure returns and stdin is dropped
WriterDone ==
    /\ WriterAlive /\ written = RecipeLen
    /\ writer' = "ok"
    /\ stdin_open' = FALSE
    /\ UNCHANGED << cliVars, config, pc, outcome, dev_image, container_id,
                    packages_string, spawned, childVars, written, launch,
                    linesVars, console, failed_builds >>

WriterStep == WriterWrite \/ WriterBrokenPipe \/ WriterDone

(***************************************************************************)
(* The build child (the docker-compatible CLI running `build`).            *)
(***************************************************************************)
ChildAlive == child = "running"
\* the layered build has its stdin piped, the acquisition build has not
ChildPiped == pc \in {"spawn_writer", "build_read"}

\* the child can take a step: it is not blocked in a write to a full pipe
ChildCanStep ==
    ChildAlive /\ (child_pend = NoByte \/ Len(stdout_pipe) < StdoutCap)

\* write(1, b): goes into the pipe, or blocks while the pipe is full
ChildWrite(b) ==
    /\ ChildAlive /\ child_pend = NoByte
    /\ Len(child_out) < MaxOut
    /\ IF Len(stdout_pipe) < StdoutCap
       THEN /\ stdout_pipe' = Append(stdout_pipe, b)
            /\ child_out' = Append(child_out, b)
            /\ UNCHANGED child_pend
       ELSE /\ child_pend' = b
            /\ UNCHANGED << stdout_pipe, child_out >>
    /\ UNCHANGED << cliVars, config, pc, outcome, dev_image, container_id,
                    packages_string, spawned, child, stdin_fill, writerVars, launch, linesVars, console,
                    failed_builds >>

\* the blocked write completes once the reader has made room
ChildUnblock ==
    /\ ChildAlive /\ child_pend # NoByte
    /\ Len(stdout_pipe) < StdoutCap
    /\ stdout_pipe' = Append(stdout_pipe, child_pend)
    /\ child_out' = Append(child_out, child_pend)
    /\ child_pend' = NoByte
    /\ UNCHANGED << cliVars, config, pc, outcome, dev_image, container_id,
                    packages_string, spawned, child, stdin_fill, writerVars, launch, linesVars, console,
                    failed_builds >>

\* read(0, ..): the child takes a recipe byte out of its stdin pipe
ChildRead ==
    /\ ChildAlive /\ ChildPiped /\ child_pend = NoByte
    /\ stdin_fill > 0
    /\ stdin_fill' = stdin_fill - 1
    /\ UNCHANGED << cliVars, config, pc, outcome, dev_image, container_id,
                    packages_string, spawned, child, child_out,
                    child_pend, stdout_pipe, writerVars, launch, linesVars,
                    console, failed_builds >>

\* exit(code): both pipe ends of the child close
ChildExit(code) ==
    /\ ChildAlive /\ child_pend = NoByte
    /\ child' = "exited"
    /\ stdin_fill' = 0
    /\ failed_builds' = IF code = 0 THEN failed_builds
                        ELSE failed_builds \cup {ChildStage}
    /\ UNCHANGED << cliVars, config, pc, outcome, dev_image, container_id,
                    packages_string, spawned, child_out, child_pend,
                    stdout_pipe, writerVars, launch, linesVars, console >>

ChildStep ==
    \/ \E b \in Bytes : ChildWrite(b)
    \/ ChildUnblock
    \/ ChildRead
    \/ \E code \in {0, 1} : ChildExit(code)

(***************************************************************************)
(* main(): the interactive launch.                                         *)
(***************************************************************************)
\* let mut workspace_vol_arg = fs::canonicalize(&cli.workspace)?;
Canon2 ==
    /\ pc = "canon2"
    /\ \E ok \in BOOLEAN :
          IF ok THEN pc' = "exec" /\ UNCHANGED outcome
          ELSE Exit(ReturnedErr("launch", "canonicalize workspace"))
    /\ UNCHANGED << cliVars, config, dev_image, container_id, packages_string,
                    spawned, childVars, writerVars, launch, linesVars,
                    console, failed_builds >>

\* the launch is given the acquired dev image instead of the built image
RunArgvDevImage ==
    << F("", config.docker_name), S("run"), S("--rm"), S("--tty"),
       S("--interactive"), S("--volume"),
       V(Canonical(Workspace), ":/workspace:rw"),
       S("--workdir"), S("/workspace"), S("--userns"), S("keep-id"),
       S("--name"), S("yadt-test-run"), S("--http-proxy"),
       S("--network"), S("host"),
       S("--env-merge"), S("PATH=${PATH}:/yadt-bin"),
       F("", dev_image), S("/bin/bash") >>

\* argv of the launch command
RunArgv ==
    << F("", config.docker_name), S("run"), S("--rm"), S("--tty"),
       S("--interactive"), S("--volume"),
       V(Canonical(Workspace), ":/workspace:rw"),
       S("--workdir"), S("/workspace"), S("--userns"), S("keep-id"),
       S("--name"), S("yadt-test-run"), S("--http-proxy"),
       S("--network"), S("host"),
       S("--env-merge"), S("PATH=${PATH}:/yadt-bin"),
       F("", container_id), S("/bin/bash") >>

\* what main does with the io::Error that exec() returns: the value is
\* dropped and main falls through to Ok(())
ExecFailed == ReturnedOk

\* Command::new(..)...exec(); Ok(())
Exec ==
    /\ pc = "exec"
    /\ launch' = RunArgv
    /\ \E ok \in BOOLEAN :
          IF ok
          THEN /\ spawned' = Append(spawned,
                                [stage |-> "launch", argv |-> RunArgv])
               /\ Exit(Replaced)
          ELSE /\ Exit(ExecFailed)
               /\ UNCHANGED spawned
    /\ UNCHANGED << cliVars, config, dev_image, container_id, packages_string,
                    childVars, writerVars, linesVars, console, failed_builds >>

(***************************************************************************)
(* The pipeline.                                                           *)
(***************************************************************************)
MainStep ==
    \/ ParseConfig
    \/ AcquireImage
    \/ AcquireContainerfile
    \/ AcqRead
    \/ AcqFinish
    \/ Canon1
    \/ SpawnBuild
    \/ SpawnWriter
    \/ BuildRead
    \/ BuildFinish
    \/ Canon2
    \/ Exec

Next == MainStep \/ WriterStep \/ ChildStep

Spec == Init /\ [][Next]_vars

\* the threads of the orchestrator and the child are all scheduled fairly
FairSpec ==
    Spec /\ WF_vars(MainStep) /\ WF_vars(WriterStep) /\ WF_vars(ChildStep)

TypeOK ==
    /\ pc \in {"parse_config", "acquire", "acq_read", "canon1", "spawn_build",
               "spawn_writer", "build_read", "canon2", "exec", "end"}
    /\ child \in {"none", "running", "exited"}
    /\ writer \in {"none", "writing", "ok", "err"}
    /\ written \in 0..RecipeLen
    /\ stdin_fill \in 0..StdinCap
    /\ Len(stdout_pipe) <= StdoutCap
    /\ Len(child_out) <= MaxOut

(***************************************************************************)
(* Config::all_packages on its own: every pair of package sets, at the     *)
(* point of main where the function is called.                             *)
(***************************************************************************)
InitPkg ==
    /\ cli_mode = "Image"
    /\ cli_image \in ImageNames
    /\ cli_config = "moved"
    /\ Idle
    /\ config \in {MkConfig(default_docker_name, default_nix_image, b, a) :
                      b \in SUBSET PkgNames, a \in SUBSET PkgNames}
    /\ pc = "spawn_build"
    /\ dev_image = cli_image

NextPkg == SpawnBuild

SpecPkg == InitPkg /\ [][NextPkg]_vars

(***************************************************************************)
(* Reference notions used by the properties.                               *)
(***************************************************************************)
RECURSIVE SplitAcc(_, _, _, _)
SplitAcc(s, sep, cur, acc) ==
    IF s = <<>> THEN Append(acc, cur)
    ELSE IF Head(s) = sep
         THEN SplitAcc(Tail(s), sep, <<>>, Append(acc, cur))
         ELSE SplitAcc(Tail(s), sep, Append(cur, Head(s)), acc)

\* the tokens of a string split on single spaces; the empty string has none
Tokens(s) == IF s = <<>> THEN <<>> ELSE SplitAcc(s, " ", <<>>, <<>>)

\* the lines of a byte stream: the texts between line feeds, and the
\* unterminated tail if there is one
StreamLines(bytes) ==
    IF bytes = <<>> THEN <<>>
    ELSE IF Last(bytes) = LF THEN SplitAcc(Front(bytes), LF, <<>>, <<>>)
    ELSE SplitAcc(bytes, LF, <<>>, <<>>)

Decodable(line) == BAD \notin Range(line)

\* the layered build's output stream has been read to its end
LayeredDone ==
    \/ container_id # Unset
    \/ outcome.kind = "panicked" /\ outcome.stage = "layered"

\* the acquisition stage is over
AcquisitionDone == dev_image # Unset

SpawnedStages == {spawned[i].stage : i \in 1..Len(spawned)}

\* the entry of the layered build in the list of started commands
LayeredEntry == CHOOSE e \in Range(spawned) : e.stage = "layered"

\* the image argument of the launch command: the last but one
LaunchImage == launch[Len(launch) - 1].val

UnionOf(c) == c.base_packages \cup c.additional_packages

(***************************************************************************)
(* C1. Layered build, last-line capture: when the build's stdout was N >= 1*)
(* decodable lines, container_id is line N and the console shows the N     *)
(* lines, each behind ">>> ", in the order produced, none dropped or       *)
(* doubled (followed only by the hash line).                               *)
(***************************************************************************)
C1_LastLineCapture ==
    (LayeredDone /\ Decodable(child_out) /\ Len(StreamLines(child_out)) >= 1)
    => /\ container_id = Last(StreamLines(child_out))
       /\ Front(console) = [i \in 1..Len(StreamLines(child_out)) |->
                                Prefixed(StreamLines(child_out)[i])]

C1_Witness ==
    /\ LayeredDone /\ Decodable(child_out)
    /\ Len(StreamLines(child_out)) >= 2
    /\ StreamLines(child_out)[1] # Last(StreamLines(child_out))
    /\ container_id = Last(StreamLines(child_out))

(***************************************************************************)
(* C2. Empty-output failure: a build child that closes its stdout without  *)
(* having written anything makes the run end in an error value, not in a   *)
(* panic.                                                                  *)
(***************************************************************************)
C2_EmptyOutputIsError ==
    (pc = "end" /\ child = "exited" /\ child_out = <<>>)
    => outcome.kind = "returned_err"

(***************************************************************************)
(* C3. No deadlock in the layered build: with the recipe longer than the   *)
(* stdin pipe and both pipes bounded, whenever the stage is reading at     *)
(* least one of reader, writer and child can step, and under fair          *)
(* scheduling the stage reaches end of stream and completes.               *)
(***************************************************************************)
ReaderCanStep == ReaderReady /\ (LinesCanRead \/ LinesAtEof)
WriterCanStep ==
    WriterAlive /\ (WriterCanWrite \/ written = RecipeLen \/ child = "exited")

C3_NoDeadlock ==
    /\ [](pc = "build_read" => (ReaderCanStep \/ WriterCanStep \/ ChildCanStep))
    /\ (pc = "build_read") ~> (pc \in {"canon2", "end"})

\* writer blocked on the full stdin pipe while the child is blocked on the
\* full stdout pipe
C3_Witness ==
    /\ pc = "build_read"
    /\ writer = "writing" /\ written < RecipeLen /\ stdin_fill = StdinCap
    /\ child = "running" /\ child_pend # NoByte
    /\ RecipeLen > StdinCap

(***************************************************************************)
(* C4. Reference passthrough: in Image mode the acquisition stage starts   *)
(* no command and dev_image is the given name, unmodified.                 *)
(***************************************************************************)
C4_ReferencePassthrough ==
    (cli_mode = "Image" /\ AcquisitionDone)
    => /\ dev_image = cli_image
       /\ "acquisition" \notin SpawnedStages
       /\ (pc = "canon1" => spawned = <<>>)

C4_Witness == cli_mode = "Image" /\ pc = "canon1" /\ dev_image = cli_image

(***************************************************************************)
(* C5. End-to-end data flow: in a run that reaches the launch, the layered *)
(* build was started with NIX_IMAGE = config.nix_image, DEV_IMAGE = the    *)
(* reference the acquisition produced and PACKAGES_STRING = a string       *)
(* all_packages returns for the configuration, and the image argument of   *)
(* the launch is the last line of the layered build's output.              *)
(***************************************************************************)
C5_EndToEnd ==
    launch # Unset
    => /\ "layered" \in SpawnedStages
       /\ LayeredEntry.argv[6] = F("NIX_IMAGE=", config.nix_image)
       /\ LayeredEntry.argv[8] = F("DEV_IMAGE=", dev_image)
       /\ LayeredEntry.argv[10].pre = "PACKAGES_STRING="
       /\ LayeredEntry.argv[10].val \in AllPackagesResults(config)
       /\ {i \in 1..10 : LayeredEntry.argv[i] = S("--build-arg")} = {5, 7, 9}
       /\ (cli_mode = "Image" => dev_image = cli_image)
       /\ LaunchImage = Last(StreamLines(child_out))

C5_Witness ==
    /\ launch # Unset
    /\ cli_mode = "Containerfile"
    /\ Len(StreamLines(child_out)) >= 2
    /\ StreamLines(child_out)[1] # LaunchImage
    /\ config.nix_image # dev_image

(***************************************************************************)
(* C6. Package set union: the string all_packages returns, split on single *)
(* spaces, has exactly one token "nixpkgs#<name>" per element of the union *)
(* of base and additional packages and nothing else: no token twice when   *)
(* the sets overlap, no leading, trailing or doubled separator.            *)
(***************************************************************************)
C6_PackageSetUnion ==
    packages_string # Unset
    => /\ Len(Tokens(packages_string)) = Cardinality(UnionOf(config))
       /\ Range(Tokens(packages_string)) =
             {FormatPkg(n) : n \in UnionOf(config)}

C6_Witness ==
    /\ packages_string # Unset
    /\ config.base_packages \cap config.additional_packages # {}
    /\ config.additional_packages \ config.base_packages # {}
    /\ config.base_packages \ config.additional_packages # {}
    /\ Len(Tokens(packages_string)) = 3

(***************************************************************************)
(* C7. Empty package set: with both sets empty all_packages returns the    *)
(* empty string and the run goes on (no error, no panic).                  *)
(***************************************************************************)
C7_EmptyPackageSet ==
    (packages_string # Unset /\ UnionOf(config) = {})
    => /\ packages_string = <<>>
       /\ outcome.kind # "panicked"
       /\ (outcome.kind = "returned_err" => outcome.msg = "spawn")

C7_Witness ==
    /\ packages_string = <<>>
    /\ UnionOf(config) = {}
    /\ pc = "spawn_writer"

(***************************************************************************)
(* C8. Launch outcome: when exec returns (the replacement failed), the run *)
(* ends in an error with a non-zero exit code, never in success.           *)
(***************************************************************************)
C8_ExecFailureIsError ==
    (pc = "end" /\ launch # Unset /\ outcome.kind # "replaced")
    => (outcome.kind = "returned_err" /\ ExitCode(outcome) # 0)

(***************************************************************************)
(* C9. Subprocess failure is terminal: once a build child has exited       *)
(* unsuccessfully no later stage is started; the launch is never reached   *)
(* after a failed build.                                                   *)
(***************************************************************************)
C9_FailureIsTerminal ==
    /\ ("acquisition" \in failed_builds => "layered" \notin SpawnedStages)
    /\ (failed_builds # {} => launch = Unset)

(***************************************************************************)
(* C10. Line decode failure, as stated: an undecodable line anywhere in    *)
(* the layered build's stdout fails the stage and the launch is not        *)
(* reached.                                                                *)
(***************************************************************************)
C10_AnyBadLineFails ==
    (LayeredDone /\ ~Decodable(child_out))
    => /\ outcome.kind \in {"returned_err", "panicked"}
       /\ launch = Unset

(***************************************************************************)
(* C10, amended. If the final line of the layered build's stdout is not    *)
(* valid text the run aborts with "Could not read last line of stdout" and *)
(* the launch is not reached; an undecodable line before the final one is  *)
(* skipped (not echoed) and the final line becomes container_id.           *)
(***************************************************************************)
DecodableLines(bytes) ==
    SelectSeq(StreamLines(bytes), Decodable)

C10_FinalBadLineFails ==
    (LayeredDone /\ Len(StreamLines(child_out)) >= 1)
    => IF Decodable(Last(StreamLines(child_out)))
       THEN /\ container_id = Last(StreamLines(child_out))
            /\ Front(console) = [i \in 1..Len(DecodableLines(child_out)) |->
                                    Prefixed(DecodableLines(child_out)[i])]
       ELSE /\ outcome = Panicked("layered",
                                  "Could not read last line of stdout")
            /\ container_id = Unset
            /\ launch = Unset
            /\ "launch" \notin SpawnedStages

C10_Witness ==
    /\ LayeredDone
    /\ Len(StreamLines(child_out)) >= 2
    /\ Decodable(StreamLines(child_out)[1])
    /\ ~Decodable(Last(StreamLines(child_out)))
    /\ outcome.kind = "panicked"

(***************************************************************************)
(* C11. Acquisition from a recipe: dev_image is the last non-empty line of *)
(* the build's stdout; empty lines after it are skipped and never become   *)
(* the image reference.                                                    *)
(***************************************************************************)
NonEmptyLine(line) == line # <<>>

NonEmptyLines(bytes) == SelectSeq(StreamLines(bytes), NonEmptyLine)

\* the acquisition build's stream is still the one on record
AcquiredFromRecipe ==
    cli_mode = "Containerfile" /\ pc \in {"canon1", "spawn_build"}

C11_LastNonEmptyLine ==
    (AcquiredFromRecipe /\ NonEmptyLines(child_out) # <<>>)
    => /\ dev_image = Last(NonEmptyLines(child_out))
       /\ dev_image # <<>>

(***************************************************************************)
(* C12. Recipe path resolution failure: when the recipe path cannot be     *)
(* canonicalized the acquisition stage ends in an error value, not in a    *)
(* panic, and no command has been started.                                 *)
(***************************************************************************)
C12_PathResolutionIsError ==
    (pc = "end" /\ outcome.stage = "acquisition" /\ spawned = <<>>)
    => outcome.kind = "returned_err"

(***************************************************************************)
(* C13. Configuration errors precede all subprocesses: when reading or     *)
(* parsing the configuration fails the run ends with an error, and no      *)
(* command (acquisition build, layered build, launch) has been started or  *)
(* is started afterwards.                                                  *)
(***************************************************************************)
ConfigFailed == outcome.stage = "config"

C13_ConfigErrorsFirst ==
    ConfigFailed
    => /\ outcome.kind = "returned_err"
       /\ ExitCode(outcome) # 0
       /\ pc = "end"
       /\ spawned = <<>>
       /\ launch = Unset
       /\ child = "none"
       /\ writer = "none"

C13_Witness ==
    /\ ConfigFailed
    /\ outcome.msg = "InvalidData"
    /\ pc = "end"

(***************************************************************************)
(* C14. Launch command shape, as stated: the launch argv is exactly        *)
(*   <cli> run --rm --tty --interactive --volume <host>:/workspace:rw      *)
(*   --workdir /workspace --userns keep-id --name <name> --network host    *)
(*   --env-merge PATH=${PATH}:<bindir> <image> <shell>                     *)
(* with nothing in between.                                                *)
(***************************************************************************)
\* the literal options of an argv, in order (values and the program dropped)
Literals(argv) == [i \in 1..Len(argv) |-> argv[i].pre]

StreamExhausted ==
    child = "none" \/ (child = "exited" /\ stdout_pipe = <<>> /\ buf = <<>>)

\* the stages of the commands started so far are in pipeline order
StagesInOrder ==
    \A i, j \in 1..Len(spawned) :
        i < j => /\ spawned[i].stage # spawned[j].stage
                 /\ spawned[i].stage # "launch"
                 /\ spawned[j].stage # "acquisition"

C15_StrictSequencing ==
    /\ [](StagesInOrder /\ (child = "running" => pc \in {"acq_read", "spawn_writer", "build_read"}))
    /\ [][(Len(spawned') > Len(spawned) \/ launch' # launch)
            => StreamExhausted]_vars
    /\ [][launch' # launch => "layered" \in SpawnedStages /\ LayeredDone]_vars

C15_Witness ==
    /\ Len(spawned) = 3
    /\ spawned[1].stage = "acquisition"
    /\ spawned[2].stage = "layered"
    /\ spawned[3].stage = "launch"

(***************************************************************************)
(* C16. Stdin ownership and close: after the hand-over only the writer     *)
(* thread writes to or closes the child's stdin; when its write has        *)
(* finished - all recipe bytes written, or a write error - the handle is   *)
(* closed; on the success path it is not closed before the whole recipe    *)
(* has been written.                                                       *)
(***************************************************************************)
C16_StdinOwnership ==
    /\ [](/\ (writer = "ok" => ~stdin_open /\ written = RecipeLen)
          /\ (writer = "err" => ~stdin_open /\ written < RecipeLen)
          /\ (writer = "writing" => stdin_open)
          /\ (writer = "none" => written = 0))
    /\ [][(stdin_open /\ ~stdin_open')
            => /\ writer = "writing" /\ writer' \in {"ok", "err"}
               /\ (writer' = "ok" => written = RecipeLen)
               /\ pc' = pc /\ outcome' = outcome]_vars
    /\ [][written' # written
            => writer = "writing" /\ stdin_open /\ pc' = pc]_vars

\* the child is still running when its input ends
C16_Witness ==
    /\ writer = "ok" /\ ~stdin_open /\ written = RecipeLen
    /\ child = "running" /\ stdin_fill = 0

(***************************************************************************)
(* C17. Writer failure isolation: a failed write of the writer thread      *)
(* (broken pipe) changes nothing of the main thread - not its position,    *)
(* its outcome, the lines it has read or printed; the reader can go on to  *)
(* the end of the stream, and the outcome of the stage is the one the      *)
(* lines read determine.                                                   *)
(***************************************************************************)
\* what the stage makes of the stream, from the stream alone
StageResult(bytes) ==
    IF StreamLines(bytes) = <<>>
    THEN Panicked("layered", "Build command did not write to stdout.")
    ELSE IF ~Decodable(Last(StreamLines(bytes)))
    THEN Panicked("layered", "Could not read last line of stdout")
    ELSE Running

C17_WriterFailureIsolated ==
    /\ [][(writer = "writing" /\ writer' = "err")
            => UNCHANGED << pc, outcome, linesVars, console, container_id,
                            stdout_pipe, child_out, launch >>]_vars
    /\ []((writer = "err" /\ pc = "build_read") => ReaderCanStep)
    /\ []((writer = "err" /\ LayeredDone)
            => /\ (outcome.stage = "layered" /\ outcome.kind = "panicked"
                     => outcome = StageResult(child_out))
               /\ (StageResult(child_out) = Running
                     => container_id = Last(StreamLines(child_out)))
               /\ (StageResult(child_out) # Running
                     => outcome = StageResult(child_out)))

\* the write failed and the stage still produced the image identifier
C17_Witness ==
    /\ writer = "err"
    /\ written < RecipeLen
    /\ container_id # Unset
    /\ container_id = Last(StreamLines(child_out))
    /\ Len(console) >= 2

(***************************************************************************)
(* C18. Streaming echo: while the layered build's stream is being read,    *)
(* every decoded line that has been read is already on the console behind  *)
(* the progress marker, in order, before the next line is read: the lines  *)
(* read never exceed the lines echoed by more than one, and nothing waits  *)
(* for the end of the stream.                                              *)
(***************************************************************************)
\* the bytes of the lines the reader has completed so far
BytesOfLinesRead ==
    SubSeq(child_out, 1, Len(child_out) - Len(stdout_pipe) - Len(buf))

\* the decoded lines the reader has completed so far
LinesRead == DecodableLines(BytesOfLinesRead)

WorkspaceFailed == outcome.msg = "canonicalize workspace"

C19_WorkspaceFailureStopsAll ==
    WorkspaceFailed
    => /\ outcome.kind = "returned_err"
       /\ "layered" \notin SpawnedStages
       /\ launch = Unset

(***************************************************************************)
(* C19, amended. When the workspace cannot be resolved the run fails with  *)
(* a path-resolution I/O error and stops there, and the launch never       *)
(* happens; the layered build has not been started when the failing        *)
(* resolution is the one before the layered build, but it has already run  *)
(* to the end of its output when the failing resolution is the second one, *)
(* made before the launch.                                                 *)
(***************************************************************************)
C19_WorkspaceFailureStopsLaunch ==
    WorkspaceFailed
    => /\ outcome.kind = "returned_err"
       /\ ExitCode(outcome) = 1
       /\ pc = "end"
       /\ launch = Unset
       /\ "launch" \notin SpawnedStages
       /\ (outcome.stage = "layered" <=> "layered" \notin SpawnedStages)
       /\ (outcome.stage = "launch" <=> container_id # Unset)

\* the second resolution fails, after the layered build has run
C19_Witness ==
    /\ WorkspaceFailed
    /\ outcome.stage = "launch"
    /\ "layered" \in SpawnedStages
    /\ launch = Unset
    /\ pc = "end"

(***************************************************************************)
(* C20. Non-empty identifier at launch: whenever the launch argv has been  *)
(* built, its image argument is a non-empty string, whatever the layered   *)
(* build wrote - a blank final line included.                              *)
(***************************************************************************)
C20_NonEmptyIdentifier ==
    launch # Unset => LaunchImage # <<>>

====
